---------------------------- MODULE Spec2Model ----------------------------
(***************************************************************************)
(* Model of the DMS analytics dashboard (src/dms_analytics.py) and of its  *)
(* PDF report builder (src/pdf_generator.py).                              *)
(*                                                                         *)
(* Two specifications share the variables:                                 *)
(*   Spec      a dashboard session over loaded data: every interaction     *)
(*             reruns the script (filters, then the pressed button's       *)
(*             handler);                                                   *)
(*   SpecLoad  the cached loader: init_connection, load_data, the TTL      *)
(*             cache and the stop on an unavailable load.                  *)
(*                                                                         *)
(* Text is a sequence of Unicode code points.  A cell value is a tagged    *)
(* record: [str |-> text], [int |-> n], [ts |-> ticks] or a null           *)
(* ([null |-> "NaN" | "None" | "NaT"]).  A table is                        *)
(* [columns |-> set of names, rows |-> sequence of records].               *)
(***************************************************************************)
EXTENDS Integers, Sequences, FiniteSets, TLC

VARIABLES
    data,                   \* the mapping load_data returned (None when unavailable)
    date_range,             \* sidebar date_input: a sequence of 0, 1 or 2 dates
    department_filter,      \* sidebar multiselect: a sequence of department names
    doc_type_filter,        \* sidebar multiselect: a sequence of type names
    filtered_docs,          \* the script's filtered_docs after all three filters
    filtered_announcements, \* filter_data(data['announcements'], 'created_at')
    button,                 \* the button pressed in the last script run
    sidebar,                \* what the Generate PDF handler put in the sidebar
    stopped,                \* the script run ended in st.stop() or uncaught
    now,                    \* wall clock, in seconds
    db,                     \* the store: reachable or not, and its content version
    engine_cache,           \* st.cache_resource entry of init_connection
    data_cache,             \* st.cache_data entry of load_data
    run                     \* what the last script run did (loader trace)

vars == <<data, date_range, department_filter, doc_type_filter, filtered_docs,
          filtered_announcements, button, sidebar, stopped, now, db,
          engine_cache, data_cache, run>>

sessionVars == <<data, date_range, department_filter, doc_type_filter,
                 filtered_docs, filtered_announcements, button, sidebar, stopped>>

loadVars == <<now, db, engine_cache, data_cache, run>>

----------------------------------------------------------------------------
(* Bounds of the model *)

MaxDocs == 21

MaxDay == 2

TicksPerDay == 2

----------------------------------------------------------------------------
(* Values *)

Str(s) == [str |-> s]

Num(n) == [int |-> n]

Ts(t) == [ts |-> t]

NaN == [null |-> "NaN"]

None == [null |-> "None"]

NaT == [null |-> "NaT"]

IsStr(v) == "str" \in DOMAIN v

IsNull(v) == "null" \in DOMAIN v

IsTimestamp(v) == "ts" \in DOMAIN v

RECURSIVE Digits(_)
Digits(n) == IF n < 10 THEN <<48 + n>> ELSE Digits(n \div 10) \o <<48 + (n % 10)>>

\* str(v) of a value that is not a string
PyStr(v) ==
    IF IsStr(v) THEN v.str
    ELSE IF "int" \in DOMAIN v THEN Digits(v.int)
    ELSE IF IsTimestamp(v) THEN Digits(v.ts)
    ELSE IF v = NaN THEN <<110, 97, 110>>
    ELSE IF v = None THEN <<78, 111, 110, 101>>
    ELSE <<78, 97, 84>>

TxtNA == <<78, 47, 65>>

TxtEllipsis == <<46, 46, 46>>

TxtAllDepartments == <<65, 108, 108, 32, 68, 101, 112, 97, 114, 116, 109, 101, 110, 116, 115>>

TxtAllTypes == <<65, 108, 108, 32, 84, 121, 112, 101, 115>>

TxtActive == <<97, 99, 116, 105, 118, 101>>

TxtArchived == <<97, 114, 99, 104, 105, 118, 101, 100>>

IsAscii(c) == c < 128

AsciiOnly(s) == \A i \in 1..Len(s) : IsAscii(s[i])

----------------------------------------------------------------------------
(* CustomPDF.safe_text *)

RECURSIVE Replace(_, _, _)
Replace(s, old, new) ==
    IF Len(s) < Len(old) THEN s
    ELSE IF SubSeq(s, 1, Len(old)) = old
         THEN new \o Replace(SubSeq(s, Len(old) + 1, Len(s)), old, new)
         ELSE <<Head(s)>> \o Replace(Tail(s), old, new)

EncodeAsciiIgnore(s) == SelectSeq(s, IsAscii)

\* a sanitizer that keeps letters, digits and spaces only
safe_text_letters_only(text) ==
    IF IsStr(text)
    THEN SelectSeq(text.str, LAMBDA c : \/ c = 32
                                        \/ c \in 48..57
                                        \/ c \in 65..90
                                        \/ c \in 97..122)
    ELSE PyStr(text)

safe_text(text) ==
    IF IsStr(text)
    THEN LET t1 == Replace(text.str, <<226, 8364, 162>>, <<45>>)
             t2 == Replace(t1, <<226, 339, 8230>>, <<91, 79, 75, 93>>)
             t3 == Replace(t2, <<226, 338>>, <<91, 69, 82, 82, 79, 82, 93>>)
             t4 == Replace(t3, <<240, 376, 8220, 352>>, <<91, 67, 72, 65, 82, 84, 93>>)
             t5 == Replace(t4, <<240, 376, 8220, 8222>>, <<91, 68, 79, 67, 93>>)
             t6 == Replace(t5, <<240, 376, 8221, 8222>>,
                           <<91, 82, 69, 70, 82, 69, 83, 72, 93>>)
         IN  EncodeAsciiIgnore(t6)
    ELSE PyStr(text)

----------------------------------------------------------------------------
(* Tables *)

Table(cols, rows) == [columns |-> cols, rows |-> rows]

Empty(df) == df.rows = <<>>

RECURSIVE Flatten(_)
Flatten(ss) == IF ss = <<>> THEN <<>> ELSE Head(ss) \o Flatten(Tail(ss))

\* df.loc[mask]: the rows whose mask entry is true, in order
RECURSIVE Loc(_, _)
Loc(rows, mask) ==
    IF rows = <<>> THEN <<>>
    ELSE (IF Head(mask) THEN <<Head(rows)>> ELSE <<>>) \o Loc(Tail(rows), Tail(mask))

\* row.get(col, default)
RowGet(row, col, default) == IF col \in DOMAIN row THEN row[col] ELSE default

\* series.isin(values): a null never matches a list of non-null values
IsIn(v, values) == \E i \in 1..Len(values) : values[i] = v

----------------------------------------------------------------------------
(* load_data: the two left joins *)

NullRow(cols) == [c \in cols |-> NaN]

\* left.merge(right, left_on=lkey, right_on=rkey, how='left')
MergeLeft(left, right, lkey, rkey) ==
    LET Matches(l) == SelectSeq(right.rows, LAMBDA r : r[rkey] = l[lkey])
        Joined(l) ==
            IF Matches(l) = <<>>
            THEN <<l @@ NullRow(right.columns)>>
            ELSE [i \in 1..Len(Matches(l)) |-> l @@ Matches(l)[i]]
    IN  Table(left.columns \cup right.columns,
              Flatten([i \in 1..Len(left.rows) |-> Joined(left.rows[i])]))

\* the mapping load_data returns once every read and both merges succeeded;
\* raw holds the eight tables as read
LoadedMapping(raw) ==
    [users          |-> MergeLeft(raw.dms_user, raw.departments,
                                  "department_id", "department_id"),
     documents      |-> MergeLeft(raw.dms_documents, raw.document_types,
                                  "doc_type", "type_id"),
     announcements  |-> raw.announcements,
     notifications  |-> raw.notifications,
     doc_versions   |-> raw.dms_document_versions,
     doc_depts      |-> raw.document_departments,
     departments    |-> raw.departments,
     document_types |-> raw.document_types]

TableNames ==
    {"users", "documents", "announcements", "notifications", "doc_versions",
     "doc_depts", "departments", "document_types"}

----------------------------------------------------------------------------
(* Store contents the session is checked over *)

ToDatetime(d) == d * TicksPerDay

DeptHR == <<72, 82>>

DeptDev == <<68, 233, 118>>

TypeMemo == <<77, 101, 109, 111>>

TypeEuro == <<8364, 85>>

TitlePlan == <<80, 108, 97, 110>>

TitleBullet == <<226, 8364, 162, 65>>

RoleAdmin == <<97, 100, 109, 105, 110>>

RoleFaculty == <<102, 97, 99, 117, 108, 116, 121>>

departments_df ==
    Table({"department_id", "name"},
          <<[department_id |-> Num(1), name |-> Str(DeptHR)],
            [department_id |-> Num(2), name |-> Str(DeptDev)]>>)

document_types_df ==
    Table({"type_id", "name"},
          <<[type_id |-> Num(1), name |-> Str(TypeMemo)],
            [type_id |-> Num(2), name |-> Str(TypeEuro)]>>)

DocRow(id, title, type, status, dept, created) ==
    [doc_id |-> Num(id), title |-> title, doc_type |-> type, status |-> status,
     department_id |-> dept, created_at |-> created]

\* the kinds of document rows: matched and unmatched type, null title,
\* null and dangling department, creation times on and off midnight, NaT
DocKind(k, id) ==
    CASE k = 1 -> DocRow(id, Str(TitlePlan), Num(1), Str(TxtActive), Num(1),
                         Ts(ToDatetime(1)))
      [] k = 2 -> DocRow(id, Str(TitleBullet), Num(2), Str(TxtArchived), Num(2),
                         Ts(ToDatetime(1) + 1))
      [] k = 3 -> DocRow(id, None, Num(7), Str(TxtActive), None,
                         Ts(ToDatetime(MaxDay)))
      [] k = 4 -> DocRow(id, Str(TitlePlan), Num(1), Str(TxtArchived), Num(9), NaT)
      [] OTHER -> DocRow(id, Str(TitlePlan), Num(1), Str(TxtActive), Num(1),
                         Ts(ToDatetime(MaxDay) + 1))

DocCycles == <<  <<1, 2, 3, 4, 5>>,  <<1>>,  <<2, 1>>  >>

DocColumns == {"doc_id", "title", "doc_type", "status", "department_id", "created_at"}

dms_documents_df(ds, n) ==
    Table(DocColumns,
          [i \in 1..n |-> DocKind(DocCycles[ds][((i - 1) % Len(DocCycles[ds])) + 1], i)])

UserRow(id, role, status, dept) ==
    [user_id |-> Num(id), role |-> role, status |-> status, department_id |-> dept]

UserColumns == {"user_id", "role", "status", "department_id"}

dms_user_df(ds) ==
    CASE ds = 1 -> Table(UserColumns,
                         <<UserRow(1, Str(RoleAdmin), Str(TxtActive), Num(1)),
                           UserRow(2, None, Str(TxtActive), Num(2)),
                           UserRow(3, Str(RoleFaculty), None, None)>>)
      [] ds = 2 -> Table(UserColumns, <<>>)
      [] OTHER  -> Table(UserColumns,
                         <<UserRow(1, Str(RoleFaculty), Str(TxtActive), Num(1)),
                           UserRow(2, Str(RoleAdmin), Str(TxtActive), Num(1)),
                           UserRow(3, Str(RoleFaculty), Str(TxtActive), Num(2))>>)

\* announcements: the second store has no created_at column
announcements_df(ds) ==
    IF ds = 2
    THEN Table({"announcement_id"}, <<[announcement_id |-> Num(1)]>>)
    ELSE Table({"announcement_id", "created_at"},
               <<[announcement_id |-> Num(1), created_at |-> Ts(ToDatetime(1))],
                 [announcement_id |-> Num(2), created_at |-> Ts(ToDatetime(1) + 1)],
                 [announcement_id |-> Num(3), created_at |-> Ts(ToDatetime(MaxDay) + 1)]>>)

EmptyTable == Table({}, <<>>)

Stores == 1..Len(DocCycles)

\* what the eight SELECT * return from store ds holding n documents
ReadTables(ds, n) ==
    [dms_user              |-> dms_user_df(ds),
     dms_documents         |-> dms_documents_df(ds, n),
     document_types        |-> document_types_df,
     departments           |-> departments_df,
     announcements         |-> announcements_df(ds),
     notifications         |-> EmptyTable,
     dms_document_versions |-> EmptyTable,
     document_departments  |-> EmptyTable]

----------------------------------------------------------------------------
(* The script's filters (src/dms_analytics.py, lines 110-127) *)

\* series >= timestamp and series <= timestamp: a NaT compares false
GeTs(v, t) == IsTimestamp(v) /\ v.ts >= t

LeTs(v, t) == IsTimestamp(v) /\ v.ts <= t

\* filter_data with the end of the range excluded
filter_data_open_end(df, date_col, dr) ==
    IF Len(dr) = 2 /\ date_col \in df.columns
    THEN LET mask == [i \in 1..Len(df.rows) |->
                         GeTs(df.rows[i][date_col], ToDatetime(dr[1]))
                         /\ LeTs(df.rows[i][date_col], ToDatetime(dr[2]) - 1)]
         IN  Table(df.columns, Loc(df.rows, mask))
    ELSE df

filter_data(df, date_col, dr) ==
    IF Len(dr) = 2 /\ date_col \in df.columns
    THEN LET mask == [i \in 1..Len(df.rows) |->
                         GeTs(df.rows[i][date_col], ToDatetime(dr[1]))
                         /\ LeTs(df.rows[i][date_col], ToDatetime(dr[2]))]
         IN  Table(df.columns, Loc(df.rows, mask))
    ELSE df

\* the department filter without its test for an empty selection
ApplyDepartmentFilterUnguarded(d, fd, dept_sel) ==
    LET dept_rows == SelectSeq(d.departments.rows, LAMBDA r : IsIn(r.name, dept_sel))
        dept_ids == [i \in 1..Len(dept_rows) |-> dept_rows[i].department_id]
    IN  Table(fd.columns,
              SelectSeq(fd.rows, LAMBDA r : IsIn(r.department_id, dept_ids)))

\* lines 122-124: the department selection, through the departments' ids
ApplyDepartmentFilter(d, fd, dept_sel) ==
    IF dept_sel # <<>> /\ "documents" \in DOMAIN d
       /\ "department_id" \in d.documents.columns
    THEN LET dept_rows == SelectSeq(d.departments.rows,
                                    LAMBDA r : IsIn(r.name, dept_sel))
             dept_ids == [i \in 1..Len(dept_rows) |-> dept_rows[i].department_id]
         IN  Table(fd.columns,
                   SelectSeq(fd.rows, LAMBDA r : IsIn(r.department_id, dept_ids)))
    ELSE fd

\* lines 126-127: the document-type selection, on the joined name column
ApplyDocTypeFilter(fd, type_sel) ==
    IF type_sel # <<>> /\ "name" \in fd.columns
    THEN Table(fd.columns, SelectSeq(fd.rows, LAMBDA r : IsIn(r.name, type_sel)))
    ELSE fd

\* lines 118-127: filtered_docs as the script leaves it
FilteredDocs(d, dr, dept_sel, type_sel) ==
    ApplyDocTypeFilter(
        ApplyDepartmentFilter(d,
            IF "documents" \in DOMAIN d
            THEN filter_data(d.documents, "created_at", dr)
            ELSE Table({}, <<>>),
            dept_sel),
        type_sel)

\* line 119
FilteredAnnouncements(d, dr) ==
    IF "announcements" \in DOMAIN d
    THEN filter_data(d.announcements, "created_at", dr)
    ELSE Table({}, <<>>)

----------------------------------------------------------------------------
(* pandas helpers the report uses *)

\* stable insertion sort of [key, item] pairs, largest key first
RECURSIVE InsertDesc(_, _)
InsertDesc(x, sorted) ==
    IF sorted = <<>> THEN <<x>>
    ELSE IF x.key > Head(sorted).key
         THEN <<x>> \o sorted
         ELSE <<Head(sorted)>> \o InsertDesc(x, Tail(sorted))

RECURSIVE SortPairsDesc(_)
SortPairsDesc(s) ==
    IF s = <<>> THEN <<>>
    ELSE InsertDesc(s[Len(s)], SortPairsDesc(SubSeq(s, 1, Len(s) - 1)))

\* the items of the pairs, largest key first, equal keys in their given order
SortDesc(pairs) ==
    LET sorted == SortPairsDesc(pairs)
    IN  [i \in 1..Len(pairs) |-> sorted[i].item]

\* the values of s in first-encountered order
Distinct(s) ==
    Loc(s, [i \in 1..Len(s) |-> \A j \in 1..(i - 1) : s[j] # s[i]])

Occurrences(s, v) == Cardinality({i \in 1..Len(s) : s[i] = v})

Column(df, col) == [i \in 1..Len(df.rows) |-> df.rows[i][col]]

\* series.value_counts(): nulls dropped, most frequent first, ties in
\* first-encountered order; a sequence of [value, count]
ValueCounts(series) ==
    LET present == SelectSeq(series, LAMBDA v : ~IsNull(v))
        values == Distinct(present)
        groups == [i \in 1..Len(values) |->
                      [value |-> values[i],
                       count |-> Occurrences(present, values[i])]]
    IN  SortDesc([i \in 1..Len(groups) |->
                     [key |-> groups[i].count, item |-> groups[i]]])

Take(s, n) == SubSeq(s, 1, IF Len(s) < n THEN Len(s) ELSE n)

\* the first n rows in row order, whatever their col
NHead(df, n, col) == Take(df.rows, n)

\* df.nlargest(n, col): the n rows with the largest col, largest first, ties
\* in row order; rows with a null col come last
NLargest(df, n, col) ==
    LET valued == SelectSeq(df.rows, LAMBDA r : ~IsNull(r[col]))
        nulls == SelectSeq(df.rows, LAMBDA r : IsNull(r[col]))
    IN  Take(SortDesc([i \in 1..Len(valued) |->
                          [key |-> valued[i][col].ts, item |-> valued[i]]])
             \o nulls, n)

----------------------------------------------------------------------------
(* create_pdf_report (src/pdf_generator.py, lines 98-257) *)

DetailLimit == 20

RecentCount == 5

RecentTitleLimit == 50

DetailTitleLimit == 40

\* one pdf.cell: the section it belongs to, the texts put into it and,
\* for a cell rendering a document, that document's row
Cell(sec, text, src) == [sec |-> sec, text |-> text, src |-> src]

NoSrc == [doc_id |-> Num(0)]

RECURSIVE Join(_, _)
Join(items, sep) ==
    IF items = <<>> THEN <<>>
    ELSE IF Len(items) = 1 THEN items[1].str
    ELSE items[1].str \o sep \o Join(Tail(items), sep)

TxtCommaSpace == <<44, 32>>

\* lines 105-111; date_range[1] raises IndexError on a shorter range
MetadataBlock(dr, dept_sel, type_sel) ==
    <<Cell("generated", <<>>, NoSrc),
      Cell("date_range", <<Digits(dr[1]), Digits(dr[2])>>, NoSrc),
      Cell("departments",
           <<IF dept_sel # <<>> THEN Join(dept_sel, TxtCommaSpace)
                               ELSE TxtAllDepartments>>, NoSrc),
      Cell("document_types",
           <<IF type_sel # <<>> THEN Join(type_sel, TxtCommaSpace)
                               ELSE TxtAllTypes>>, NoSrc)>>

\* add_metric_card: the value goes through safe_text
MetricCard(title, value) == Cell(title, <<safe_text(Num(value))>>, NoSrc)

\* lines 113-129
ExecutiveSummary(d) ==
    <<MetricCard("total_documents", Len(d.documents.rows)),
      MetricCard("total_users", Len(d.users.rows)),
      MetricCard("active_documents",
                 IF "status" \in d.documents.columns
                 THEN Len(SelectSeq(d.documents.rows,
                                    LAMBDA r : r.status = Str(TxtActive)))
                 ELSE 0),
      MetricCard("announcements", Len(d.announcements.rows))>>

\* one line per group of a value_counts(): "- <safe value>: <count> ..."
CountLines(sec, df, col) ==
    IF col \in df.columns
    THEN LET counts == ValueCounts(Column(df, col))
         IN  <<Cell(sec \o "_heading", <<>>, NoSrc)>>
             \o [i \in 1..Len(counts) |->
                    Cell(sec, <<safe_text(counts[i].value),
                                Digits(counts[i].count)>>, NoSrc)]
    ELSE <<>>

\* lines 131-159
DocumentAnalysis(fd) ==
    IF ~Empty(fd)
    THEN CountLines("documents_by_type", fd, "name")
         \o CountLines("documents_by_status", fd, "status")
    ELSE <<Cell("no_document_data", <<>>, NoSrc)>>

\* lines 163-191
UserAnalysis(d) ==
    IF ~Empty(d.users)
    THEN CountLines("users_by_role", d.users, "role")
         \o CountLines("users_by_status", d.users, "status")
    ELSE <<Cell("no_user_data", <<>>, NoSrc)>>

\* created_at.strftime('%Y-%m-%d %H:%M') keeps the time of day
StrftimeMinutes(v) == IF IsTimestamp(v) THEN Digits(v.ts) ELSE PyStr(v)

\* created_at.strftime('%Y-%m-%d') keeps the day only
StrftimeDay(v) == IF IsTimestamp(v) THEN Digits(v.ts \div TicksPerDay) ELSE PyStr(v)

\* safe_text(title)[:limit] + "..." if len(str(title)) > limit else safe_text(title)
SafeTitle(title, limit) ==
    IF Len(PyStr(title)) > limit
    THEN Take(safe_text(title), limit) \o TxtEllipsis
    ELSE safe_text(title)

\* lines 206-222: the two cells of one recent document
RecentEntry(row) ==
    <<Cell("recent_title",
           <<SafeTitle(RowGet(row, "title", Str(TxtNA)), RecentTitleLimit)>>, row),
      Cell("recent_line",
           <<safe_text(RowGet(row, "name", Str(TxtNA))),
             safe_text(RowGet(row, "status", Str(TxtNA))),
             StrftimeMinutes(RowGet(row, "created_at", Str(TxtNA)))>>, row)>>

\* lines 195-224
RecentActivity(fd) ==
    IF ~Empty(fd) /\ "created_at" \in fd.columns
    THEN LET recent_docs == NLargest(fd, RecentCount, "created_at")
         IN  <<Cell("recent_heading", <<>>, NoSrc)>>
             \o Flatten([i \in 1..Len(recent_docs) |-> RecentEntry(recent_docs[i])])
    ELSE <<Cell("no_recent_activity", <<>>, NoSrc)>>

\* add_table_header / add_table_row: every cell goes through safe_text
AddTableRow(sec, cells, src) ==
    Cell(sec, [i \in 1..Len(cells) |-> safe_text(cells[i])], src)

\* lines 240-255: one table row of the detailed listing
DetailRow(row) ==
    AddTableRow("detail_row",
        <<RowGet(row, "doc_id", Str(TxtNA)),
          Str(SafeTitle(Str(PyStr(RowGet(row, "title", Str(TxtNA)))), DetailTitleLimit)),
          Str(safe_text(RowGet(row, "name", Str(TxtNA)))),
          Str(safe_text(RowGet(row, "status", Str(TxtNA)))),
          Str(StrftimeDay(RowGet(row, "created_at", Str(TxtNA))))>>, row)

DetailHeaders ==
    <<Str(<<73, 68>>), Str(<<84, 105, 116, 108, 101>>), Str(<<84, 121, 112, 101>>),
      Str(<<83, 116, 97, 116, 117, 115>>), Str(<<67, 114, 101, 97, 116, 101, 100>>)>>

\* the listing's condition with the limit itself excluded
DetailEmittedBelowLimit(fd) == ~Empty(fd) /\ Len(fd.rows) < DetailLimit

\* line 229: the condition under which the listing is emitted
DetailEmitted(fd) == ~Empty(fd) /\ Len(fd.rows) <= DetailLimit

\* lines 228-255
DetailedListing(fd) ==
    IF DetailEmitted(fd)
    THEN <<AddTableRow("detail_header", DetailHeaders, NoSrc)>>
         \o [i \in 1..Len(fd.rows) |-> DetailRow(fd.rows[i])]
    ELSE <<>>

\* a report whose user analysis is computed from the users of the selected
\* departments
create_pdf_report_selected_users(d, fd, dr, dept_sel, type_sel) ==
    IF Len(dr) < 2
    THEN [ok |-> FALSE, error |-> "IndexError", cells |-> <<>>]
    ELSE [ok |-> TRUE, error |-> "",
          cells |-> MetadataBlock(dr, dept_sel, type_sel)
                    \o ExecutiveSummary(d)
                    \o DocumentAnalysis(fd)
                    \o UserAnalysis([d EXCEPT
                           !.users = ApplyDepartmentFilter(d, d.users, dept_sel)])
                    \o RecentActivity(fd)
                    \o DetailedListing(fd)]

\* create_pdf_report: the cells of the document, or the exception raised
create_pdf_report(d, fd, dr, dept_sel, type_sel) ==
    IF Len(dr) < 2
    THEN [ok |-> FALSE, error |-> "IndexError", cells |-> <<>>]
    ELSE [ok |-> TRUE, error |-> "",
          cells |-> MetadataBlock(dr, dept_sel, type_sel)
                    \o ExecutiveSummary(d)
                    \o DocumentAnalysis(fd)
                    \o UserAnalysis(d)
                    \o RecentActivity(fd)
                    \o DetailedListing(fd)]

----------------------------------------------------------------------------
(* The Generate PDF Report handler (src/dms_analytics.py, lines 408-423) *)

TxtReportTitle ==
    <<68, 77, 83, 32, 65, 110, 97, 108, 121, 116, 105, 99, 115, 32,
      82, 101, 112, 111, 114, 116>>

TxtDotPdf == <<46, 112, 100, 102>>

\* f"{report_title.replace(' ', '_')}.pdf"
FileName(report_title) == Replace(report_title, <<32>>, <<95>>) \o TxtDotPdf

IsLatin1(c) == c < 256

\* pdf.output(dest='S'): the pages are encoded as latin-1, which raises
\* UnicodeEncodeError on any other character
OutputRaises(cells) ==
    \E i \in 1..Len(cells) : \E j \in 1..Len(cells[i].text) :
        \E k \in 1..Len(cells[i].text[j]) : ~IsLatin1(cells[i].text[j][k])

NoOutput == [error |-> "", link |-> <<>>, success |-> FALSE, crashed |-> FALSE]

\* the handler without its try/except: an exception ends the script run
GeneratePdfHandlerUncaught(d, fd, dr, dept_sel, type_sel) ==
    LET pdf == create_pdf_report(d, fd, dr, dept_sel, type_sel)
    IN  IF ~pdf.ok \/ OutputRaises(pdf.cells)
        THEN [NoOutput EXCEPT !.crashed = TRUE]
        ELSE [NoOutput EXCEPT
                 !.link = <<[filename |-> FileName(TxtReportTitle),
                             content |-> pdf.cells]>>,
                 !.success = TRUE]

\* try: build, serialize, link, success; except Exception: st.sidebar.error
GeneratePdfHandler(d, fd, dr, dept_sel, type_sel) ==
    LET pdf == create_pdf_report(d, fd, dr, dept_sel, type_sel)
    IN  IF ~pdf.ok
        THEN [NoOutput EXCEPT !.error = pdf.error]
        ELSE IF OutputRaises(pdf.cells)
        THEN [NoOutput EXCEPT !.error = "UnicodeEncodeError"]
        ELSE [NoOutput EXCEPT
                 !.link = <<[filename |-> FileName(TxtReportTitle),
                             content |-> pdf.cells]>>,
                 !.success = TRUE]

----------------------------------------------------------------------------
(* The loader (src/dms_analytics.py, lines 26-88) *)

TTL == 3600

MaxClock == 7200

MaxStoreDocs == 2

Advances == {1200, 2400, 3600}

NumReads == 8

NumMerges == 2

\* @st.cache_resource: the first return value, None included, is kept
init_connection(cache, create_ok) ==
    IF cache # "empty"
    THEN [engine |-> cache, executed |-> FALSE]
    ELSE [engine |-> IF create_ok THEN "engine" ELSE "none", executed |-> TRUE]

\* a load_data whose except branch returns the tables read before the failure
LoadDataBodyPartial(engine, store, fail_at) ==
    IF engine = "none" THEN [value |-> None, queries |-> 0]
    ELSE IF fail_at # 0
    THEN [value |-> IF fail_at = 1 THEN None
                    ELSE [users |-> dms_user_df(store.id)],
          queries |-> IF fail_at <= NumReads THEN fail_at ELSE NumReads]
    ELSE [value |-> LoadedMapping(ReadTables(store.id, store.docs)),
          queries |-> NumReads]

\* the body of load_data: fail_at = 0 when no step raises, else the step
\* (reads 1..8, merges 9..10) that raises; an unreachable store fails read 1
LoadDataBody(engine, store, fail_at) ==
    IF engine = "none" THEN [value |-> None, queries |-> 0]
    ELSE IF fail_at # 0
    THEN [value |-> None,
          queries |-> IF fail_at <= NumReads THEN fail_at ELSE NumReads]
    ELSE [value |-> LoadedMapping(ReadTables(store.id, store.docs)),
          queries |-> NumReads]

\* a cache whose entries expire after half the time
CacheFreshHalfTtl(entry, t) == entry.filled /\ 2 * (t - entry.created) < TTL

\* @st.cache_data(ttl=3600): an entry is served until ttl seconds after it
\* was stored
CacheFresh(entry, t) == entry.filled /\ t < entry.created + TTL

\* load_data() as the script calls it
load_data(entry, t, conn_cache, store, create_ok, fail_at) ==
    IF CacheFresh(entry, t)
    THEN [value |-> entry.value, entry |-> entry, conn_cache |-> conn_cache,
          executed |-> FALSE, connected |-> FALSE, queries |-> 0]
    ELSE LET conn == init_connection(conn_cache, create_ok)
             body == LoadDataBody(conn.engine, store, fail_at)
         IN  [value |-> body.value,
              entry |-> [filled |-> TRUE, value |-> body.value, created |-> t],
              conn_cache |-> conn.engine,
              executed |-> TRUE, connected |-> conn.executed,
              queries |-> body.queries]

\* lines 86-88
Unavailable(d) == d = None

FailPoints(store) == IF store.up THEN 0..(NumReads + NumMerges) ELSE {1}

----------------------------------------------------------------------------
(* One run of the script: load, stop or filter, then the pressed button *)

DateRanges ==
    {<<>>} \cup {<<a>> : a \in 1..MaxDay}
           \cup {r \in {<<a, b>> : a \in 1..MaxDay, b \in 1..MaxDay} : r[1] <= r[2]}

DepartmentSelections ==
    {<<>>, <<Str(DeptHR)>>, <<Str(DeptDev)>>, <<Str(DeptHR), Str(DeptDev)>>}

DocTypeSelections ==
    {<<>>, <<Str(TypeMemo)>>, <<Str(TypeEuro)>>, <<Str(TypeMemo), Str(TypeEuro)>>}

ScriptRun(dr, dept_sel, type_sel, pressed, create_ok, fail_at) ==
    LET loaded == load_data(data_cache, now, engine_cache, db, create_ok, fail_at)
        d == loaded.value
        fd == FilteredDocs(d, dr, dept_sel, type_sel)
    IN  /\ data' = d
        /\ data_cache' = loaded.entry
        /\ engine_cache' = loaded.conn_cache
        /\ date_range' = dr
        /\ department_filter' = dept_sel
        /\ doc_type_filter' = type_sel
        /\ button' = pressed
        /\ IF Unavailable(d)
           THEN /\ stopped' = TRUE
                /\ filtered_docs' = Table({}, <<>>)
                /\ filtered_announcements' = Table({}, <<>>)
                /\ sidebar' = NoOutput
                /\ run' = [kind |-> "run", executed |-> loaded.executed,
                           connected |-> loaded.connected,
                           queries |-> loaded.queries, downstream |-> FALSE]
           ELSE /\ stopped' = FALSE
                /\ filtered_docs' = fd
                /\ filtered_announcements' = FilteredAnnouncements(d, dr)
                /\ sidebar' = IF pressed = "generate_pdf"
                              THEN GeneratePdfHandler(d, fd, dr, dept_sel, type_sel)
                              ELSE NoOutput
                /\ run' = [kind |-> "run", executed |-> loaded.executed,
                           connected |-> loaded.connected,
                           queries |-> loaded.queries, downstream |-> TRUE]
        /\ UNCHANGED <<now, db>>

\* the session's interactions: each reruns the script
ChangeDateRange ==
    \E dr \in DateRanges :
        /\ dr # date_range
        /\ ScriptRun(dr, department_filter, doc_type_filter, "none", TRUE, 0)

ChangeDepartmentFilter ==
    \E sel \in DepartmentSelections :
        /\ sel # department_filter
        /\ ScriptRun(date_range, sel, doc_type_filter, "none", TRUE, 0)

ChangeDocTypeFilter ==
    \E sel \in DocTypeSelections :
        /\ sel # doc_type_filter
        /\ ScriptRun(date_range, department_filter, sel, "none", TRUE, 0)

ClickGeneratePdf ==
    /\ ~stopped
    /\ ScriptRun(date_range, department_filter, doc_type_filter, "generate_pdf",
                 TRUE, 0)

IdleRun == [kind |-> "run", executed |-> FALSE, connected |-> FALSE,
            queries |-> 0, downstream |-> TRUE]

\* a session whose data was loaded from store ds holding n documents
Init ==
    \E ds \in Stores, n \in 0..MaxDocs :
        /\ db = [up |-> TRUE, id |-> ds, docs |-> n]
        /\ data = LoadedMapping(ReadTables(ds, n))
        /\ now = 0
        /\ engine_cache = "engine"
        /\ data_cache = [filled |-> TRUE, value |-> data, created |-> 0]
        /\ date_range = <<1, MaxDay>>
        /\ department_filter = <<>>
        /\ doc_type_filter = <<>>
        /\ filtered_docs = FilteredDocs(data, date_range, <<>>, <<>>)
        /\ filtered_announcements = FilteredAnnouncements(data, date_range)
        /\ button = "none"
        /\ sidebar = NoOutput
        /\ stopped = FALSE
        /\ run = IdleRun

Next ==
    \/ ChangeDateRange
    \/ ChangeDepartmentFilter
    \/ ChangeDocTypeFilter
    \/ ClickGeneratePdf

Spec == Init /\ [][Next]_vars

----------------------------------------------------------------------------
(* Sessions over a store whose one document has a long or non-ASCII title *)

MaxTitleLen == 52

PadSpread == 18

\* n letters
Pad(n) == [i \in 1..n |-> 65]

\* nothing; an accented letter; the sequences safe_text replaces by "-",
\* "[OK]", "[ERROR]" and "[CHART]"; one of them inside another; and ASCII
\* punctuation
TitleChunks ==
    {<<>>, <<233>>, <<226, 8364, 162>>, <<226, 339, 8230>>, <<226, 338>>,
     <<240, 376, 8220, 352>>, <<226, 226, 8364, 162, 339, 8230>>,
     <<91, 79, 75, 93>>}

PadLens == {0} \cup {n \in 1..MaxTitleLen : n >= MaxTitleLen - PadSpread}

Titles ==
    {t \in {Pad(a) \o c \o Pad(b) : a \in PadLens, c \in TitleChunks, b \in 0..1} :
        Len(t) <= MaxTitleLen}

\* what the eight SELECT * return from a store with one document titled t
ReadTitledTables(t) ==
    [ReadTables(1, 0) EXCEPT
        !.dms_documents =
            Table(DocColumns,
                  <<DocRow(1, Str(t), Num(1), Str(TxtActive), Num(1),
                           Ts(ToDatetime(1)))>>)]

\* a session whose data was loaded from a store with one document titled t
InitTitles ==
    \E t \in Titles :
        /\ db = [up |-> TRUE, id |-> 0, docs |-> 1, title |-> t]
        /\ data = LoadedMapping(ReadTitledTables(t))
        /\ now = 0
        /\ engine_cache = "engine"
        /\ data_cache = [filled |-> TRUE, value |-> data, created |-> 0]
        /\ date_range = <<1, MaxDay>>
        /\ department_filter = <<>>
        /\ doc_type_filter = <<>>
        /\ filtered_docs = FilteredDocs(data, date_range, <<>>, <<>>)
        /\ filtered_announcements = FilteredAnnouncements(data, date_range)
        /\ button = "none"
        /\ sidebar = NoOutput
        /\ stopped = FALSE
        /\ run = IdleRun

\* the date range is changed and the report is generated
NextTitles ==
    \/ ChangeDateRange
    \/ ClickGeneratePdf

SpecTitles == InitTitles /\ [][NextTitles]_vars

----------------------------------------------------------------------------
(* The loader over time: the clock, the store and refreshes of the page *)

Idle == [kind |-> "idle", executed |-> FALSE, connected |-> FALSE,
         queries |-> 0, downstream |-> FALSE]

Tick ==
    \E dt \in Advances :
        /\ now + dt <= MaxClock
        /\ now' = now + dt
        /\ run' = [run EXCEPT !.kind = "idle"]
        /\ UNCHANGED <<sessionVars, db, engine_cache, data_cache>>

StoreGoesDown ==
    /\ db.up
    /\ db' = [db EXCEPT !.up = FALSE]
    /\ run' = [run EXCEPT !.kind = "idle"]
    /\ UNCHANGED <<sessionVars, now, engine_cache, data_cache>>

StoreComesUp ==
    /\ ~db.up
    /\ db' = [db EXCEPT !.up = TRUE]
    /\ run' = [run EXCEPT !.kind = "idle"]
    /\ UNCHANGED <<sessionVars, now, engine_cache, data_cache>>

\* another client of the store adds a document
StoreWrite ==
    /\ db.up
    /\ db.docs < MaxStoreDocs
    /\ db' = [db EXCEPT !.docs = @ + 1]
    /\ run' = [run EXCEPT !.kind = "idle"]
    /\ UNCHANGED <<sessionVars, now, engine_cache, data_cache>>

\* the user reloads the page: the script runs with the widgets as they are
Refresh ==
    \E create_ok \in BOOLEAN, fail_at \in FailPoints(db) :
        ScriptRun(date_range, department_filter, doc_type_filter, "none",
                  create_ok, fail_at)

InitLoad ==
    /\ db \in [up : BOOLEAN, id : {1}, docs : {0}]
    /\ data = None
    /\ now = 0
    /\ engine_cache = "empty"
    /\ data_cache = [filled |-> FALSE, value |-> None, created |-> 0]
    /\ date_range = <<1, MaxDay>>
    /\ department_filter = <<>>
    /\ doc_type_filter = <<>>
    /\ filtered_docs = Table({}, <<>>)
    /\ filtered_announcements = Table({}, <<>>)
    /\ button = "none"
    /\ sidebar = NoOutput
    /\ stopped = FALSE
    /\ run = Idle

NextLoad ==
    \/ Tick
    \/ StoreGoesDown
    \/ StoreComesUp
    \/ StoreWrite
    \/ Refresh

SpecLoad == InitLoad /\ [][NextLoad]_vars

----------------------------------------------------------------------------
(* Claims about the filters, checked under Spec *)

\* start <= ts <= end, the endpoints taken as pd.to_datetime takes them
\* (midnight of the date); a null timestamp is in no range
InDateRange(v, dr) ==
    /\ ~IsNull(v)
    /\ ToDatetime(dr[1]) <= v.ts
    /\ v.ts <= ToDatetime(dr[2])

RowsInDateRange(df, col, dr) ==
    IF Len(dr) = 2 /\ col \in df.columns
    THEN Table(df.columns, SelectSeq(df.rows, LAMBDA r : InDateRange(r[col], dr)))
    ELSE df

\* C1: with a range of exactly two endpoints and date_col a column, filter_data
\* returns exactly the rows with start <= ts <= end, in row order; with an
\* empty or one-endpoint range, or date_col not a column, it returns df unchanged.
C1_FilterDataKeepsExactlyTheRange ==
    ~stopped =>
        /\ filtered_announcements
              = RowsInDateRange(data.announcements, "created_at", date_range)
        /\ (department_filter = <<>> /\ doc_type_filter = <<>>)
              => filtered_docs = RowsInDateRange(data.documents, "created_at", date_range)

\* a two-endpoint range that keeps a row at its start and a row at its end
\* and drops other rows
C1_Witness ==
    /\ Len(date_range) = 2
    /\ department_filter = <<>> /\ doc_type_filter = <<>>
    /\ Len(filtered_docs.rows) < Len(data.documents.rows)
    /\ \E i \in 1..Len(filtered_docs.rows) :
          filtered_docs.rows[i].created_at = Ts(ToDatetime(date_range[1]))
    /\ \E i \in 1..Len(filtered_docs.rows) :
          filtered_docs.rows[i].created_at = Ts(ToDatetime(date_range[2]))
    /\ date_range[1] < date_range[2]

\* the display name joined to a document by its department reference is in sel
DepartmentNameIn(d, row, sel) ==
    \E i \in 1..Len(d.departments.rows) :
        /\ d.departments.rows[i].department_id = row.department_id
        /\ \E j \in 1..Len(sel) : sel[j] = d.departments.rows[i].name

TypeNameIn(row, sel) == \E j \in 1..Len(sel) : sel[j] = row.name

\* C2: an empty selection leaves the date-filtered table unchanged, and a
\* non-empty selection keeps exactly the rows whose joined display name
\* (department name, document-type name) is in the selection.
C2_CategoryFiltersByJoinedName ==
    ~stopped =>
        filtered_docs.rows =
            SelectSeq(filter_data(data.documents, "created_at", date_range).rows,
                      LAMBDA r :
                          /\ department_filter = <<>>
                                \/ DepartmentNameIn(data, r, department_filter)
                          /\ doc_type_filter = <<>> \/ TypeNameIn(r, doc_type_filter))

\* one selection empty and the table not emptied by it, the other selection
\* keeping some rows and dropping others
C2_Witness ==
    /\ department_filter = <<>>
    /\ doc_type_filter # <<>>
    /\ filtered_docs.rows # <<>>
    /\ Len(filtered_docs.rows)
         < Len(filter_data(data.documents, "created_at", date_range).rows)

----------------------------------------------------------------------------
(* Claims about the report, checked under Spec *)

\* a report was generated in the last script run and offered for download
Generated == button = "generate_pdf" /\ sidebar.success

ReportCells == sidebar.link[1].content

CellsOf(sec) == SelectSeq(ReportCells, LAMBDA c : c.sec = sec)

ListingEmitted == CellsOf("detail_header") # <<>>

ListingRowsFollowDocs ==
    /\ Len(CellsOf("detail_row")) = Len(filtered_docs.rows)
    /\ \A i \in 1..Len(filtered_docs.rows) :
          CellsOf("detail_row")[i].src = filtered_docs.rows[i]

\* C3 (as claimed): the detailed listing is emitted if and only if the filtered
\* table has at most 20 rows, for every size including 0, 20 and 21.
C3_ListingIffAtMostLimit ==
    Generated => (ListingEmitted <=> Len(filtered_docs.rows) <= DetailLimit)

\* C3 (amended): the detailed listing is emitted if and only if the filtered
\* table has at least 1 and at most 20 rows; when emitted it has exactly one
\* row per filtered document, in the filtered table's row order.
C3_ListingIffNonEmptyAndAtMostLimit ==
    Generated =>
        /\ ListingEmitted <=> (1 <= Len(filtered_docs.rows)
                               /\ Len(filtered_docs.rows) <= DetailLimit)
        /\ ListingEmitted => ListingRowsFollowDocs
        /\ ~ListingEmitted => CellsOf("detail_row") = <<>>

\* a report over exactly 20 filtered documents, listing all 20
C3_Witness ==
    /\ Generated
    /\ Len(filtered_docs.rows) = DetailLimit
    /\ ListingEmitted
    /\ Len(CellsOf("detail_row")) = DetailLimit

RECURSIVE SeqSum(_)
SeqSum(s) == IF s = <<>> THEN 0 ELSE Head(s) + SeqSum(Tail(s))

RECURSIVE ParseNat(_)
ParseNat(digits) ==
    IF digits = <<>> THEN 0
    ELSE 10 * ParseNat(SubSeq(digits, 1, Len(digits) - 1)) + (digits[Len(digits)] - 48)

\* the sum of the counts printed in one breakdown of the report
PrintedSum(sec) ==
    SeqSum([i \in 1..Len(CellsOf(sec)) |-> ParseNat(CellsOf(sec)[i].text[2])])

\* C4: the counts printed in each grouped breakdown sum to the row count of
\* its table: type and status counts to the number of filtered documents, role
\* counts to the number of users, also when the grouping column has nulls.
C4_BreakdownsSumToRowCount ==
    Generated =>
        /\ ~Empty(filtered_docs) =>
              /\ PrintedSum("documents_by_type") = Len(filtered_docs.rows)
              /\ PrintedSum("documents_by_status") = Len(filtered_docs.rows)
        /\ ~Empty(data.users) =>
              PrintedSum("users_by_role") = Len(data.users.rows)

\* C5: every text create_pdf_report places into the artifact is ASCII-only,
\* the echoed department and document-type selections included.
C5_ArtifactTextIsAscii ==
    Generated =>
        \A i \in 1..Len(ReportCells) : \A j \in 1..Len(ReportCells[i].text) :
            AsciiOnly(ReportCells[i].text[j])

\* the field is missing for the document: no such column, or a null value
Missing(row, col) == col \notin DOMAIN row \/ IsNull(row[col])

\* C6: in recent-activity entries and detailed-listing rows, a field whose
\* value is missing for the document (absent column or null value) is rendered
\* as the literal "N/A".
C6_MissingFieldsRenderNA ==
    Generated =>
        \A i \in 1..Len(ReportCells) :
            LET c == ReportCells[i]
            IN  /\ c.sec = "recent_title" =>
                      (Missing(c.src, "title") => c.text[1] = TxtNA)
                /\ c.sec = "recent_line" =>
                      /\ Missing(c.src, "name") => c.text[1] = TxtNA
                      /\ Missing(c.src, "status") => c.text[2] = TxtNA
                      /\ Missing(c.src, "created_at") => c.text[3] = TxtNA
                /\ c.sec = "detail_row" =>
                      /\ Missing(c.src, "doc_id") => c.text[1] = TxtNA
                      /\ Missing(c.src, "title") => c.text[2] = TxtNA
                      /\ Missing(c.src, "name") => c.text[3] = TxtNA
                      /\ Missing(c.src, "status") => c.text[4] = TxtNA
                      /\ Missing(c.src, "created_at") => c.text[5] = TxtNA

\* building or serializing the report raises for these inputs
ReportRaises(d, fd, dr, dept_sel, type_sel) ==
    LET pdf == create_pdf_report(d, fd, dr, dept_sel, type_sel)
    IN  ~pdf.ok \/ OutputRaises(pdf.cells)

\* C10: an error raised while building or serializing the report is caught at
\* the button handler: an inline error message, no download link, no success
\* message, the session still running, loaded data and filters unchanged.
C10_ReportErrorIsCaught ==
    [][(/\ button' = "generate_pdf"
        /\ ~stopped'
        /\ ReportRaises(data', filtered_docs', date_range',
                        department_filter', doc_type_filter')) =>
          /\ sidebar'.error # ""
          /\ sidebar'.link = <<>>
          /\ ~sidebar'.success
          /\ ~sidebar'.crashed
          /\ data' = data
          /\ date_range' = date_range
          /\ department_filter' = department_filter
          /\ doc_type_filter' = doc_type_filter]_vars

\* the button pressed with a one-endpoint date range: the IndexError is shown
C10_Witness ==
    /\ button = "generate_pdf"
    /\ Len(date_range) < 2
    /\ sidebar.error = "IndexError"
    /\ ~stopped

\* the documents the recent-activity section lists, in the order listed
RecentRows ==
    [i \in 1..Len(CellsOf("recent_title")) |-> CellsOf("recent_title")[i].src]

Listed(row) == \E i \in 1..Len(RecentRows) : RecentRows[i] = row

\* C11: the recent-activity section lists min(5, n) of the n filtered
\* documents, each once; no unlisted document is newer than a listed one; and
\* the listed documents are in descending order of creation timestamp.
C11_RecentActivityListsLatestFive ==
    Generated =>
        LET n == Len(filtered_docs.rows)
        IN  /\ Len(RecentRows) = IF n < 5 THEN n ELSE 5
            /\ \A i \in 1..Len(RecentRows) :
                  /\ \E j \in 1..n : filtered_docs.rows[j] = RecentRows[i]
                  /\ IsTimestamp(RecentRows[i].created_at)
                  /\ \A k \in 1..Len(RecentRows) :
                        i < k => /\ RecentRows[i] # RecentRows[k]
                                 /\ RecentRows[i].created_at.ts
                                       >= RecentRows[k].created_at.ts
                  /\ \A j \in 1..n :
                        ~Listed(filtered_docs.rows[j]) =>
                            RecentRows[i].created_at.ts
                                >= filtered_docs.rows[j].created_at.ts
            /\ Len(CellsOf("recent_line")) = Len(RecentRows)

\* a report over more than 5 filtered documents of different ages: 5 listed,
\* the newest first although it is not the first row, an older one left out
C11_Witness ==
    /\ Generated
    /\ Len(filtered_docs.rows) > 5
    /\ Len(RecentRows) = 5
    /\ RecentRows[1] # filtered_docs.rows[1]
    /\ RecentRows[1].created_at.ts > RecentRows[5].created_at.ts
    /\ \E j \in 1..Len(filtered_docs.rows) :
          /\ ~Listed(filtered_docs.rows[j])
          /\ filtered_docs.rows[j].created_at.ts < RecentRows[5].created_at.ts

UserAnalysisSections ==
    {"users_by_role_heading", "users_by_role",
     "users_by_status_heading", "users_by_status", "no_user_data"}

\* the user-analysis content of a report, in the order written
UserAnalysisOf(cells) == SelectSeq(cells, LAMBDA c : c.sec \in UserAnalysisSections)

\* the report the same loaded data gives with the filters a session starts
\* with: the whole date range, no department and no document type selected
UnfilteredReport ==
    create_pdf_report(data, FilteredDocs(data, <<1, MaxDay>>, <<>>, <<>>),
                      <<1, MaxDay>>, <<>>, <<>>)

\* C12: over the same loaded data, the user analysis of a report generated
\* under any date range, department selection and document-type selection is
\* the user analysis of the report generated with no filter applied; so any
\* two reports over the same loaded data have identical user-analysis content.
C12_UserAnalysisIgnoresFilters ==
    Generated =>
        UserAnalysisOf(ReportCells) = UserAnalysisOf(UnfilteredReport.cells)

\* a report generated under a department selection that drops documents, over
\* users of several departments, with both user breakdowns printed
C12_Witness ==
    /\ Generated
    /\ department_filter # <<>>
    /\ Len(filtered_docs.rows) < Len(data.documents.rows)
    /\ \E i \in 1..Len(data.users.rows) :
          ~IsIn(data.users.rows[i].name, department_filter)
    /\ \E i \in 1..Len(UserAnalysisOf(ReportCells)) :
          UserAnalysisOf(ReportCells)[i].sec = "users_by_role"
    /\ \E i \in 1..Len(UserAnalysisOf(ReportCells)) :
          UserAnalysisOf(ReportCells)[i].sec = "users_by_status"

----------------------------------------------------------------------------
(* Claims about text, checked under SpecTitles *)

\* the titles of the loaded documents
LoadedTitles ==
    {data.documents.rows[i].title : i \in 1..Len(data.documents.rows)}

\* C13: safe_text is idempotent and is the identity on ASCII: sanitizing the
\* sanitized title gives the sanitized title, and a title made only of ASCII
\* characters is returned unchanged; so the title the detailed listing
\* sanitizes a second time in add_table_row is written as sanitized once.
C13_SafeTextIdempotentAndAsciiIdentity ==
    ~stopped =>
        /\ \A s \in LoadedTitles :
              /\ safe_text(Str(safe_text(s))) = safe_text(s)
              /\ AsciiOnly(s.str) => safe_text(s) = s.str
        /\ Generated =>
              \A i \in 1..Len(CellsOf("detail_row")) :
                  CellsOf("detail_row")[i].text[2]
                      = SafeTitle(CellsOf("detail_row")[i].src.title, DetailTitleLimit)

\* a report listing a title with ASCII punctuation next to a sequence that
\* safe_text replaces by a longer ASCII text
C13_Witness ==
    /\ Generated
    /\ CellsOf("detail_row") # <<>>
    /\ \E s \in LoadedTitles :
          /\ ~AsciiOnly(s.str)
          /\ Len(safe_text(s)) > Len(s.str)
          /\ \E i \in 1..Len(safe_text(s)) : safe_text(s)[i] = 91

\* the title as one string rule renders it: cut to its first limit characters
\* and marked when it is longer than limit, whole otherwise
Truncated(s, limit) ==
    IF Len(s) > limit THEN Take(s, limit) \o TxtEllipsis ELSE s

\* the rule applied to the title as stored and then sanitized, or to the
\* sanitized title
RenderedAsClaimed(title, limit) ==
    {IF Len(title.str) > limit
     THEN safe_text(Str(Take(title.str, limit))) \o TxtEllipsis
     ELSE safe_text(title),
     Truncated(safe_text(title), limit)}

\* C14: a title is rendered cut to its first limit characters followed by
\* "..." when it is longer than the section's limit (50 in recent activity, 40
\* in the detailed listing) and in full with no marker otherwise, also when it
\* holds characters that safe_text strips or replaces.
C14_TitleTruncatedOnlyIfLonger ==
    Generated =>
        /\ \A i \in 1..Len(CellsOf("recent_title")) :
              CellsOf("recent_title")[i].text[1]
                  \in RenderedAsClaimed(CellsOf("recent_title")[i].src.title, 50)
        /\ \A i \in 1..Len(CellsOf("detail_row")) :
              CellsOf("detail_row")[i].text[2]
                  \in RenderedAsClaimed(CellsOf("detail_row")[i].src.title, 40)

----------------------------------------------------------------------------
(* Claims about the loader, checked under SpecLoad *)

IsFullMapping(d) == d # None /\ DOMAIN d = TableNames

\* C7: a load never yields a partial dataset: load_data returns None if the
\* connection, a read or a merge fails, and otherwise a mapping with all 8
\* names; when it is None the script stops, so nothing downstream runs on a
\* mapping lacking a name.
C7_NoPartialDataset ==
    /\ data = None \/ IsFullMapping(data)
    /\ data_cache.filled => (data_cache.value = None \/ IsFullMapping(data_cache.value))
    /\ (run.kind = "run" /\ data = None) => (stopped /\ ~run.downstream)
    /\ run.downstream => IsFullMapping(data)

\* a load that failed after some tables had been read: unavailable, stopped
C7_Witness ==
    /\ run.kind = "run"
    /\ run.executed
    /\ run.queries > 1
    /\ run.queries < NumReads
    /\ data = None
    /\ stopped

\* the entry of the load cache is within one hour of the load that stored it
WithinWindow == data_cache.filled /\ now - data_cache.created < TTL

\* C8: a load result stays valid for one hour from the load that produced it:
\* a load request within the window returns the cached value and issues no
\* query; the tables are queried again only by a request after the window.
C8_CachedForOneHour ==
    [][run'.kind = "run" =>
          /\ WithinWindow =>
                /\ data' = data_cache.value
                /\ data_cache' = data_cache
                /\ ~run'.executed
                /\ run'.queries = 0
          /\ run'.queries > 0 => ~WithinWindow]_vars

\* a request later in the window of a successful load, after the store has
\* changed, served from the cache
C8_Witness ==
    /\ run.kind = "run"
    /\ ~run.executed
    /\ IsFullMapping(data)
    /\ now > data_cache.created
    /\ db.docs # Len(data.documents.rows)

\* C9: a failure is terminal only for the interaction in which it occurs: the
\* script run that follows a failed load executes load_data again (and the
\* connection again when that was what failed) rather than replaying the
\* failure.
C9_RetryExecutesAgain ==
    [][(stopped /\ data = None /\ run'.kind = "run") => run'.executed]_vars

=============================================================================
